---- MODULE Spec2Model ----
(***************************************************************************)
(* bin/sam-translate.py: the command line shell around the SAM translator. *)
(* One behaviour is one invocation of the script: the arguments are        *)
(* parsed, then the stages the sub-command selects run one after another   *)
(* (package, transform_template, deploy), then the interpreter exits.      *)
(* The cloud CLI child process, the YAML parser, the transformation engine *)
(* and the file system are the environment: each of their outcomes is a    *)
(* nondeterministic choice.                                                *)
(***************************************************************************)
EXTENDS Integers, Sequences, FiniteSets, TLC

\* ---------------------------------------------------------------- bounds

\* The most positional words on the command line.
MaxPositionals == 2

\* The most causes an InvalidDocumentException carries.
MaxCauses == 2

\* ------------------------------------------------------------- input sets

\* Python's None: an option that was not given.
None == "None"

\* Words given as the positional command.
CommandWords == {"package", "deploy", "build"}

\* Values given to --template-file and --output-template.
TemplateFileArgs == {None, "./app.yaml"}
OutputTemplateArgs == {None, "out/cfn.json"}
S3BucketArgs == {None, "my-bucket"}
CapabilitiesArgs == {None, "CAPABILITY_IAM"}
StackNameArgs == {None, "my-stack"}

\* platform.system() of the machine the script runs on.
Platforms == {"Linux", "Windows"}

\* What subprocess.check_call can see of the child: its exit code, or minus
\* the number of the signal that killed it.
ChildReturnCodes == {0, 1, 2, 255, -9}

\* Messages of an InvalidDocumentException and of its causes.
TopMessages == {"Invalid document."}
CauseMessages == {"bad A", "bad B"}

SeqsUpTo(S, n) == UNION {[1..k -> S] : k \in 0..n}

Range(s) == {s[i] : i \in 1..Len(s)}

\* The argument vectors: at most MaxPositionals positional words, each
\* option given or not, possibly an option the parser does not know.
ArgVectors ==
    [positionals : SeqsUpTo(CommandWords, MaxPositionals),
     template_file : TemplateFileArgs,
     output_template : OutputTemplateArgs,
     s3_bucket : S3BucketArgs,
     capabilities : CapabilitiesArgs,
     stack_name : StackNameArgs,
     verbose : BOOLEAN,
     unrecognized : BOOLEAN]

\* ------------------------------------------------------------------ state

VARIABLES
    argv,                          \* sys.argv[1:]
    platform_system,               \* platform.system()
    cli_options,                   \* the parsed Namespace
    pc,                            \* where the script is
    package_output_template_file,  \* the local of __main__
    calls,                         \* the stages run so far, with arguments and outcome
    engine_calls,                  \* how often transform() was called
    fs_initial,                    \* the file system when the script started
    fs,                            \* the file system: path -> content
    stdout,                        \* what print() wrote
    stderr,                        \* what logging and argparse wrote
    exit_status                    \* <<>> while running, <<n>> once exited

vars == <<argv, platform_system, cli_options, pc, package_output_template_file,
          calls, engine_calls, fs_initial, fs, stdout, stderr, exit_status>>

\* ------------------------------------------------------------- the parser

\* pathlib.Path(s) as str: the normal form of the path (for the values of
\* TemplateFileArgs and OutputTemplateArgs: a leading "./" is dropped).
Path(s) ==
    CASE s = "./app.yaml" -> "app.yaml"
      [] OTHER -> s

\* The Namespace before parse_args has run.
NoOptions ==
    [command |-> None, template_file |-> None, output_template |-> None,
     s3_bucket |-> None, capabilities |-> None, stack_name |-> None,
     verbose |-> FALSE]

\* parser.error(): more than one positional word, or an unknown option.
parse_error(av) == av.unrecognized \/ Len(av.positionals) > 1

\* The positional "command", nargs="?": any one word, or None.
parse_command(av) ==
    IF Len(av.positionals) = 0 THEN None ELSE av.positionals[1]

\* parser.parse_args() on a well-formed argument vector.
parse_args(av) ==
    [command |-> parse_command(av),
     template_file |->
        IF av.template_file = None THEN Path("template.yaml")
        ELSE Path(av.template_file),
     output_template |->
        IF av.output_template = None THEN Path("transformed-template.json")
        ELSE Path(av.output_template),
     s3_bucket |-> av.s3_bucket,
     capabilities |-> av.capabilities,
     stack_name |-> av.stack_name,
     verbose |-> av.verbose]

\* ------------------------------------------------------ the interpreter

\* sys.exit that loses the code: sys.exit(1) where sys.exit(e.returncode)
\* is meant.
sys_exit_constant(code) == <<1>>

\* sys.exit(code): the exit status is the low byte of the code.
sys_exit(code) == <<code % 256>>

\* An exception nothing catches: a traceback, and exit status 1.
uncaught_exception == <<1>>

\* LOG.debug: written only under --verbose (logging.basicConfig).
log_debug(msg) ==
    IF cli_options.verbose THEN <<[level |-> "DEBUG", msg |-> msg]>> ELSE <<>>

\* LOG.error: written at every logging level the script configures.
log_error(msg) == <<[level |-> "ERROR", msg |-> msg]>>

\* ------------------------------------------------------------- __main__

\* __main__ with deploy() called before transform_template().
NextStage_deploy_first(command, current) ==
    CASE current = "main" ->
            IF command = "package" \/ command = "deploy"
            THEN "package" ELSE "transform_template"
      [] current = "package" ->
            IF command = "deploy" THEN "deploy" ELSE "transform_template"
      [] current = "deploy" -> "transform_template"
      [] OTHER -> "done"

\* The stage __main__ runs after `current`, "done" after the last one.
NextStage(command, current) ==
    CASE current = "main" ->
            IF command = "package" \/ command = "deploy"
            THEN "package" ELSE "transform_template"
      [] current = "package" -> "transform_template"
      [] current = "transform_template" ->
            IF command = "deploy" THEN "deploy" ELSE "done"
      [] OTHER -> "done"

\* The script ran off its end: the interpreter exits with status 0.
Continue(next) ==
    /\ pc' = IF next = "done" THEN "exited" ELSE next
    /\ exit_status' = IF next = "done" THEN <<0>> ELSE <<>>

Exit(status) ==
    /\ pc' = "exited"
    /\ exit_status' = status

\* ----------------------------------------------------- execute_command

\* The command line execute_command builds.
command_with_args(command, args) ==
    <<IF platform_system # "Windows" THEN "aws" ELSE "aws.cmd",
      "cloudformation", command>> \o args

\* What subprocess.check_call can do with an argument list: a None among
\* the arguments raises TypeError before any child is started; the
\* executable may be missing; otherwise the child runs and ends with a
\* return code, and a non-zero one raises CalledProcessError.
check_call_outcomes(cmdline) ==
    IF None \in Range(cmdline)
    THEN {[outcome |-> "TypeError", returncode |-> 0]}
    ELSE {[outcome |-> "FileNotFoundError", returncode |-> 0]}
         \cup {[outcome |-> IF rc = 0 THEN "ok" ELSE "CalledProcessError",
                returncode |-> rc] : rc \in ChildReturnCodes}

\* execute_command whose handler logs CalledProcessError and returns.
execute_command_exit_swallowing(o) ==
    CASE o.outcome = "ok" -> <<>>
      [] o.outcome = "CalledProcessError" -> <<>>
      [] OTHER -> uncaught_exception

\* The exit status execute_command leaves: none when the child succeeded,
\* the child's return code through sys.exit on CalledProcessError, that of
\* an uncaught exception otherwise.
execute_command_exit(o) ==
    CASE o.outcome = "ok" -> <<>>
      [] o.outcome = "CalledProcessError" -> sys_exit(o.returncode)
      [] OTHER -> uncaught_exception

\* What execute_command logs.
execute_command_log(o) ==
    log_debug("Executing command")
    \o (CASE o.outcome = "ok" -> log_debug("Command successful")
          [] o.outcome = "CalledProcessError" -> log_debug("Exception")
          [] OTHER -> <<[level |-> "TRACEBACK", msg |-> o.outcome]>>)

\* What the child leaves on disk: `aws cloudformation package` that ends
\* with return code 0 has written the file named by --output-template-file;
\* a child that failed, or was never started, and `deploy` write nothing.
fs_after_child(o, args) ==
    IF o.outcome = "ok" /\ args[3] = "--output-template-file"
    THEN [fs EXCEPT ![args[4]] = "packaged"]
    ELSE fs

\* execute_command(command, args), called by `stage`, with outcome o.
execute_command(stage, command, args, o) ==
    /\ calls' = Append(calls, [stage |-> stage,
                               args |-> command_with_args(command, args),
                               outcome |-> o.outcome,
                               returncode |-> o.returncode,
                               message |-> "", causes |-> <<>>])
    /\ stderr' = stderr \o execute_command_log(o)
    /\ fs' = fs_after_child(o, args)
    /\ IF execute_command_exit(o) = <<>>
       THEN Continue(NextStage(cli_options.command, stage))
       ELSE Exit(execute_command_exit(o))

\* ------------------------------------------------------------ ParseArgs

\* Lines 30-66 and 129-131: parse the arguments, configure logging, enter
\* __main__.
ParseArgs ==
    /\ pc = "parse_args"
    /\ IF parse_error(argv)
       THEN /\ stderr' = stderr \o <<[level |-> "USAGE", msg |-> "usage"]>>
            /\ Exit(sys_exit(2))
            /\ UNCHANGED cli_options
       ELSE /\ cli_options' = parse_args(argv)
            /\ Continue(NextStage(parse_args(argv).command, "main"))
            /\ UNCHANGED stderr
    /\ UNCHANGED <<argv, platform_system, package_output_template_file, calls,
                   engine_calls, fs_initial, fs, stdout>>

\* -------------------------------------------------------------- package

PackagedSuffix == "._sam_packaged_.yaml"

\* The intermediate path package() generates.
package_output_path(input_file_path) == Path(input_file_path \o PackagedSuffix)

package_args(input_file_path) ==
    <<"--template-file", input_file_path,
      "--output-template-file", package_output_path(input_file_path),
      "--s3-bucket", cli_options.s3_bucket>>

package ==
    /\ pc = "package"
    /\ \E o \in check_call_outcomes(
                   command_with_args("package", package_args(cli_options.template_file))) :
          /\ execute_command("package", "package",
                             package_args(cli_options.template_file), o)
          /\ package_output_template_file' =
                IF o.outcome = "ok"
                THEN package_output_path(cli_options.template_file)
                ELSE package_output_template_file
    /\ UNCHANGED <<argv, platform_system, cli_options, engine_calls, fs_initial,
                   stdout>>

\* --------------------------------------------------------------- deploy

deploy_args(template_file) ==
    <<"--template-file", template_file,
      "--capabilities", cli_options.capabilities,
      "--stack-name", cli_options.stack_name>>

\* __main__ deploying the packaged template instead of the transformed one.
deploy_template_file_packaged == package_output_template_file

\* The path __main__ hands to deploy().
deploy_template_file == cli_options.output_template

deploy ==
    /\ pc = "deploy"
    /\ \E o \in check_call_outcomes(
                   command_with_args("deploy", deploy_args(deploy_template_file))) :
          execute_command("deploy", "deploy", deploy_args(deploy_template_file), o)
    /\ UNCHANGED <<argv, platform_system, cli_options,
                   package_output_template_file, engine_calls, fs_initial,
                   stdout>>

\* --------------------------------------------------- transform_template

\* __main__ transforming the original input whatever the sub-command.
transform_input_original == cli_options.template_file

\* The path __main__ hands to transform_template() as its input: the
\* packaged template under package and deploy, the input template otherwise.
transform_input ==
    IF cli_options.command = "package" \/ cli_options.command = "deploy"
    THEN package_output_template_file
    ELSE cli_options.template_file

TransformOutcome(kind, message, causes) ==
    [outcome |-> kind, message |-> message, causes |-> causes]

\* What can happen in transform_template(input, output): the input cannot
\* be opened; yaml_parse rejects it; transform() raises
\* InvalidDocumentException with a message and causes; the output cannot be
\* opened for writing; the write fails midway; or all of it succeeds.
transform_outcomes(input_file_path) ==
    IF fs[input_file_path] = "absent"
    THEN {TransformOutcome("FileNotFoundError", "", <<>>)}
    ELSE {TransformOutcome(k, "", <<>>) :
             k \in {"ParseError", "ok", "OSError_open", "OSError_write"}}
         \cup {TransformOutcome("InvalidDocumentException", m, cs) :
                  m \in TopMessages, cs \in SeqsUpTo(CauseMessages, MaxCauses)}

\* Whether transform() was reached: the with block of lines 104-105 comes
\* first, and an exception in it leaves the function.
engine_called(o) == o.outcome \notin {"FileNotFoundError", "ParseError"}

\* transform_template opening the output for writing before it parses the
\* input: whatever happens afterwards, the file is truncated.
fs_after_transform_open_first(o, output_file_path) ==
    CASE o.outcome = "ok" -> [fs EXCEPT ![output_file_path] = "cfn"]
      [] o.outcome \in {"FileNotFoundError", "OSError_open"} -> fs
      [] OTHER -> [fs EXCEPT ![output_file_path] = "partial"]

\* The file system after transform_template: write_text is reached only
\* when transform() and json.dumps returned; it truncates the file when it
\* opens it, and replaces its content.
fs_after_transform(o, output_file_path) ==
    CASE o.outcome = "ok" -> [fs EXCEPT ![output_file_path] = "cfn"]
      [] o.outcome = "OSError_write" -> [fs EXCEPT ![output_file_path] = "partial"]
      [] OTHER -> fs

\* The confirmation print() writes, after a successful write only.
transform_print(o, output_file_path) ==
    IF o.outcome = "ok"
    THEN << <<"Wrote transformed CloudFormation template to: ", output_file_path>> >>
    ELSE <<>>

\* The reduce with the separator forgotten.
RECURSIVE error_message_unspaced(_, _)
error_message_unspaced(message, causes) ==
    IF causes = <<>> THEN message
    ELSE error_message_unspaced(message \o Head(causes), Tail(causes))

\* functools.reduce(lambda message, error: message + " " + error.message,
\*                  causes, message)
RECURSIVE error_message(_, _)
error_message(message, causes) ==
    IF causes = <<>> THEN message
    ELSE error_message(message \o " " \o Head(causes), Tail(causes))

\* What transform_template logs: on InvalidDocumentException the joined
\* message, then the generator object of line 117.
transform_log(o) ==
    CASE o.outcome = "InvalidDocumentException" ->
            log_error(error_message(o.message, o.causes))
            \o log_error("<generator object>")
      [] o.outcome = "ok" -> <<>>
      [] OTHER -> <<[level |-> "TRACEBACK", msg |-> o.outcome]>>

\* transform_template letting InvalidDocumentException end the process.
transform_template_exit_fatal(o) ==
    CASE o.outcome = "ok" -> <<>>
      [] OTHER -> uncaught_exception

\* The exit status transform_template leaves: none when it returns, which
\* it does after a write and after a caught InvalidDocumentException.
transform_template_exit(o) ==
    CASE o.outcome = "ok" -> <<>>
      [] o.outcome = "InvalidDocumentException" -> <<>>
      [] OTHER -> uncaught_exception

transform_template ==
    /\ pc = "transform_template"
    /\ \E o \in transform_outcomes(transform_input) :
          /\ calls' = Append(calls,
                [stage |-> "transform_template",
                 args |-> <<transform_input, cli_options.output_template>>,
                 outcome |-> o.outcome, returncode |-> 0,
                 message |-> o.message, causes |-> o.causes])
          /\ engine_calls' = engine_calls + (IF engine_called(o) THEN 1 ELSE 0)
          /\ fs' = fs_after_transform(o, cli_options.output_template)
          /\ stdout' = stdout \o transform_print(o, cli_options.output_template)
          /\ stderr' = stderr \o transform_log(o)
          /\ IF transform_template_exit(o) = <<>>
             THEN Continue(NextStage(cli_options.command, "transform_template"))
             ELSE Exit(transform_template_exit(o))
    /\ UNCHANGED <<argv, platform_system, cli_options,
                   package_output_template_file, fs_initial>>

\* ------------------------------------------------------------ behaviours

InputPaths == {parse_args(av).template_file : av \in ArgVectors}

OutputPaths == {parse_args(av).output_template : av \in ArgVectors}

Paths == InputPaths \cup {package_output_path(p) : p \in InputPaths} \cup OutputPaths

\* The file systems the script may start in: the input templates are there
\* or not, each output template is there or not, and no packaged template
\* is left from an earlier run.
InitialFileSystems ==
    {[p \in Paths |->
        IF p \in InputPaths THEN i
        ELSE IF p \in OutputPaths THEN out[p]
        ELSE "absent"] :
        i \in {"absent", "old"}, out \in [OutputPaths -> {"absent", "old"}]}

Init ==
    /\ argv \in ArgVectors
    /\ platform_system \in Platforms
    /\ cli_options = NoOptions
    /\ pc = "parse_args"
    /\ package_output_template_file = None
    /\ calls = <<>>
    /\ engine_calls = 0
    /\ fs_initial \in InitialFileSystems
    /\ fs = fs_initial
    /\ stdout = <<>>
    /\ stderr = <<>>
    /\ exit_status = <<>>

Next ==
    \/ ParseArgs
    \/ package
    \/ transform_template
    \/ deploy

Spec == Init /\ [][Next]_vars

\* ------------------------------------------------------------ properties

\* parse_args has returned an Options record.
Started == cli_options # NoOptions

command == cli_options.command

input_file_path == cli_options.template_file

output_file_path == cli_options.output_template

\* The stages run so far, in order.
StagesRun == [i \in 1..Len(calls) |-> calls[i].stage]

\* The stage sequence of a sub-command.
StageSequence(c) ==
    CASE c = "package" -> <<"package", "transform_template">>
      [] c = "deploy" -> <<"package", "transform_template", "deploy">>
      [] OTHER -> <<"transform_template">>

NoStageFailed == \A i \in 1..Len(calls) : calls[i].outcome = "ok"

\* Every launch of the cloud CLI so far succeeded.
NoChildFailed ==
    \A i \in 1..Len(calls) :
        calls[i].stage \in {"package", "deploy"} => calls[i].outcome = "ok"

\* The lines logged at level ERROR, in order.
ErrorLog == SelectSeq(stderr, LAMBDA e : e.level = "ERROR")

\* C1: the stages run so far are always the first stages of the
\* sub-command's sequence (Transforming; Packaging, Transforming; Packaging,
\* Transforming, Deploying), each at most once and in that order; while no
\* stage has failed the script stands exactly at the next stage of the
\* sequence, and an invocation that ends with no stage failed has run the
\* whole sequence.
C1_StagesInOrder ==
    LET seq == StageSequence(command) IN
    /\ Len(calls) <= Len(seq)
    /\ StagesRun = SubSeq(seq, 1, Len(calls))
    /\ (Started /\ NoStageFailed /\ pc # "exited" => pc = seq[Len(calls) + 1])
    /\ (Started /\ NoStageFailed /\ pc = "exited" => StagesRun = seq)

C1_Witness ==
    /\ pc = "exited"
    /\ command = "deploy"
    /\ NoStageFailed
    /\ StagesRun = <<"package", "transform_template", "deploy">>

\* C2: a packaging child that ended with a non-zero return code is the last
\* stage of the invocation: the process has exited, neither Transforming nor
\* Deploying ran, and the output template is as it was at the start.
C2_PackagingFailureStops ==
    \A i \in 1..Len(calls) :
        calls[i].stage = "package" /\ calls[i].outcome = "CalledProcessError" =>
            /\ i = Len(calls)
            /\ pc = "exited"
            /\ engine_calls = 0
            /\ fs[output_file_path] = fs_initial[output_file_path]

C2_Witness ==
    /\ Len(calls) = 1
    /\ calls[1].stage = "package"
    /\ calls[1].outcome = "CalledProcessError"
    /\ calls[1].returncode = 2
    /\ command = "deploy"
    /\ fs_initial[output_file_path] = "old"
    /\ exit_status = <<2>>

\* C3: once the process has exited, its exit status is 0 when every stage
\* of the sub-command's sequence ran and succeeded, and it is the child's
\* exit code when a package or deploy child ended with a non-zero exit code.
C3_ExitCode ==
    pc = "exited" /\ Started =>
        /\ (StagesRun = StageSequence(command) /\ NoStageFailed =>
                exit_status = <<0>>)
        /\ \A i \in 1..Len(calls) :
              calls[i].outcome = "CalledProcessError" /\ calls[i].returncode > 0 =>
                  exit_status = <<calls[i].returncode>>

C3_Witness ==
    /\ pc = "exited"
    /\ Len(calls) = 3
    /\ calls[3].stage = "deploy"
    /\ calls[3].outcome = "CalledProcessError"
    /\ calls[3].returncode = 255
    /\ exit_status = <<255>>

\* C4: after a Validation error in Transforming an error is in the log, the
\* output template is as it was at the start, nothing was printed, and the
\* transform step did not end the process: the script goes on to Deploying
\* under deploy and otherwise ends with status 0, and whenever every launch
\* of the cloud CLI succeeded the exit status is 0.
C4_ValidationErrorSwallowed ==
    \A i \in 1..Len(calls) :
        calls[i].outcome = "InvalidDocumentException" =>
            /\ Len(ErrorLog) > 0
            /\ fs[output_file_path] = fs_initial[output_file_path]
            /\ stdout = <<>>
            /\ (i = Len(calls) =>
                    IF command = "deploy" THEN pc = "deploy"
                    ELSE pc = "exited" /\ exit_status = <<0>>)
            /\ (pc = "exited" /\ NoChildFailed => exit_status = <<0>>)

C4_Witness ==
    /\ pc = "exited"
    /\ Len(calls) = 3
    /\ calls[2].outcome = "InvalidDocumentException"
    /\ calls[3].outcome = "ok"
    /\ fs_initial[output_file_path] = "old"
    /\ fs[output_file_path] = "old"
    /\ exit_status = <<0>>

\* C5: Packaging is called with the input path, the input path followed by
\* "._sam_packaged_.yaml" and the bucket; under package and deploy
\* Transforming reads that intermediate path and writes the output path, and
\* no other file; Deploying is given the output path.
C5_PathsHandedOn ==
    \A i \in 1..Len(calls) :
        /\ calls[i].stage = "package" =>
              SubSeq(calls[i].args, 3, 9) =
                  <<"package",
                    "--template-file", input_file_path,
                    "--output-template-file", input_file_path \o "._sam_packaged_.yaml",
                    "--s3-bucket", cli_options.s3_bucket>>
        /\ calls[i].stage = "transform_template" /\ command \in {"package", "deploy"} =>
              /\ calls[i].args =
                    <<input_file_path \o "._sam_packaged_.yaml", output_file_path>>
              /\ calls[i].outcome = "ok" =>
                    /\ fs[output_file_path] = "cfn"
                    /\ \A p \in DOMAIN fs \ {output_file_path} :
                          fs[p] \in {fs_initial[p], "packaged"}
        /\ calls[i].stage = "deploy" =>
              SubSeq(calls[i].args, 3, 5) =
                  <<"deploy", "--template-file", output_file_path>>

C5_Witness ==
    /\ argv.template_file = None
    /\ argv.output_template = None
    /\ command = "package"
    /\ Len(calls) = 2
    /\ calls[1].args[7] = "template.yaml._sam_packaged_.yaml"
    /\ calls[1].args[9] = "my-bucket"
    /\ calls[2].args = <<"template.yaml._sam_packaged_.yaml", "transformed-template.json">>
    /\ fs["transformed-template.json"] = "cfn"

\* C6: when the input template does not parse, Transforming is the last
\* stage of the invocation, the transformation engine was never called, and
\* the output template is as it was at the start: not created, not
\* truncated.
C6_ParseErrorLeavesOutput ==
    \A i \in 1..Len(calls) :
        calls[i].outcome = "ParseError" =>
            /\ i = Len(calls)
            /\ pc = "exited"
            /\ engine_calls = 0
            /\ fs[output_file_path] = fs_initial[output_file_path]
            /\ fs[output_file_path] # "partial"

C6_Witness ==
    /\ Len(calls) = 1
    /\ calls[1].outcome = "ParseError"
    /\ command = None
    /\ fs_initial[output_file_path] = "old"
    /\ fs[output_file_path] = "old"

\* C7: the sub-command in the parsed Options is none, package or deploy,
\* and an argument vector whose command is any other word ends the process
\* with the usage message (status 2) before any stage runs.
C7_CommandIsKnown ==
    /\ Started => command \in {None, "package", "deploy"}
    /\ (/\ pc # "parse_args"
        /\ argv.positionals # <<>>
        /\ argv.positionals[1] \notin {"package", "deploy"}) =>
            /\ pc = "exited"
            /\ exit_status = <<2>>
            /\ calls = <<>>

\* C8: a package or deploy stage that was handed a missing option (no
\* bucket, no capabilities, no stack name) ends as a child process with a
\* non-zero return code, and the process exits with that code.
C8_MissingFieldIsChildFailure ==
    \A i \in 1..Len(calls) :
        calls[i].stage \in {"package", "deploy"} /\ None \in Range(calls[i].args) =>
            /\ calls[i].outcome = "CalledProcessError"
            /\ calls[i].returncode # 0
            /\ exit_status = <<calls[i].returncode % 256>>

\* " " + c1 + ... + " " + cn
RECURSIVE CauseSuffix(_)
CauseSuffix(cs) ==
    IF cs = <<>> THEN "" ELSE " " \o Head(cs) \o CauseSuffix(Tail(cs))

\* C9: on a Validation error with message m and causes c1..cn the first
\* error logged is m followed by each cause message in order, each preceded
\* by one space; with no cause it is m.
C9_LoggedMessage ==
    \A i \in 1..Len(calls) :
        calls[i].outcome = "InvalidDocumentException" =>
            /\ Len(ErrorLog) > 0
            /\ ErrorLog[1].msg = calls[i].message \o CauseSuffix(calls[i].causes)
            /\ (calls[i].causes = <<>> => ErrorLog[1].msg = calls[i].message)

C9_Witness ==
    \E i \in 1..Len(calls) :
        /\ calls[i].outcome = "InvalidDocumentException"
        /\ calls[i].causes = <<"bad A", "bad B">>
        /\ ErrorLog[1].msg = "Invalid document. bad A bad B"

\* C10: under deploy, once Packaging succeeded and Transforming returned,
\* with the output written or with a Validation error, Deploying is the next
\* stage and is called with the output path.
C10_DeployAfterValidationError ==
    (/\ command = "deploy"
     /\ Len(calls) >= 2
     /\ calls[1].outcome = "ok"
     /\ calls[2].outcome \in {"ok", "InvalidDocumentException"}) =>
        \/ Len(calls) = 2 /\ pc = "deploy"
        \/ /\ Len(calls) = 3
           /\ calls[3].stage = "deploy"
           /\ calls[3].args[5] = output_file_path

C10_Witness ==
    /\ command = "deploy"
    /\ Len(calls) = 3
    /\ calls[2].outcome = "InvalidDocumentException"
    /\ calls[3].stage = "deploy"
    /\ calls[3].outcome = "ok"
    /\ calls[3].args[5] = output_file_path
    /\ fs[output_file_path] = "absent"

====
